---------------------------- MODULE Spec2Model ----------------------------
(***************************************************************************)
(* Model of bookstore_manager.py: a single-connection SQLite ledger with   *)
(* three tables (member, book, sale) and the handlers initialize_db,       *)
(* add_sale, print_sale_report, update_sale, delete_sale driven by the     *)
(* menu loop of main().                                                    *)
(*                                                                         *)
(* Text values the code inspects character by character (the sale date,    *)
(* the raw quantity / discount / menu inputs) are sequences of one-        *)
(* character strings; identifiers that are only compared are strings.      *)
(***************************************************************************)
EXTENDS Integers, Sequences, FiniteSets, TLC

VARIABLES member, book, sale, seq, running, result, created_price

vars == <<member, book, sale, seq, running, result, created_price>>

(***************************************************************************)
(* Bounds of the model.                                                    *)
(***************************************************************************)
\* Largest sale identifier the model lets AUTOINCREMENT hand out.
MaxSid == 5

\* Width, in bits, of the signed integers the store accepts as a bound
\* parameter.  SQLite's width is 64; the model keeps the same two's
\* complement range at a width the model checker's own integers can hold.
IntBits == 16

SqliteIntMax == 2 ^ (IntBits - 1) - 1
SqliteIntMin == 0 - 2 ^ (IntBits - 1)

(***************************************************************************)
(* Text helpers.                                                           *)
(***************************************************************************)
Digits == {"0", "1", "2", "3", "4", "5", "6", "7", "8", "9"}

DigitVal(c) ==
    CASE c = "0" -> 0 [] c = "1" -> 1 [] c = "2" -> 2 [] c = "3" -> 3
      [] c = "4" -> 4 [] c = "5" -> 5 [] c = "6" -> 6 [] c = "7" -> 7
      [] c = "8" -> 8 [] c = "9" -> 9

\* str.count(ch)
RECURSIVE Count(_, _)
Count(s, ch) ==
    IF s = <<>> THEN 0
    ELSE (IF Head(s) = ch THEN 1 ELSE 0) + Count(Tail(s), ch)

RECURSIVE DigitsValue(_, _)
DigitsValue(s, acc) ==
    IF s = <<>> THEN acc
    ELSE DigitsValue(Tail(s), acc * 10 + DigitVal(Head(s)))

\* int(text) succeeds: an optional sign followed by at least one digit.
IsIntText(s) ==
    LET body == IF s # <<>> /\ Head(s) \in {"-", "+"} THEN Tail(s) ELSE s
    IN  /\ body # <<>>
        /\ \A i \in 1..Len(body) : body[i] \in Digits

\* int(text), defined when IsIntText(text).
ParseInt(s) ==
    IF Head(s) = "-" THEN 0 - DigitsValue(Tail(s), 0)
    ELSE IF Head(s) = "+" THEN DigitsValue(Tail(s), 0)
    ELSE DigitsValue(s, 0)

\* The sqlite3 module refuses to bind a Python int outside the store's
\* signed range (OverflowError, which is not an sqlite3.Error).
Bindable(n) == SqliteIntMin <= n /\ n <= SqliteIntMax

(***************************************************************************)
(* Seed data of initialize_db.                                             *)
(***************************************************************************)
Date0115 == <<"2", "0", "2", "4", "-", "0", "1", "-", "1", "5">>
Date0116 == <<"2", "0", "2", "4", "-", "0", "1", "-", "1", "6">>
Date0117 == <<"2", "0", "2", "4", "-", "0", "1", "-", "1", "7">>
Date0118 == <<"2", "0", "2", "4", "-", "0", "1", "-", "1", "8">>

SeedMembers ==
    { [mid |-> "M001", mname |-> "Alice", mphone |-> "0912-345678", memail |-> "alice@example.com"],
      [mid |-> "M002", mname |-> "Bob",   mphone |-> "0923-456789", memail |-> "bob@example.com"],
      [mid |-> "M003", mname |-> "Cathy", mphone |-> "0934-567890", memail |-> "cathy@example.com"] }

SeedBooks ==
    { [bid |-> "B001", btitle |-> "Python Programming",     bprice |-> 600,  bstock |-> 50],
      [bid |-> "B002", btitle |-> "Data Science Basics",    bprice |-> 800,  bstock |-> 30],
      [bid |-> "B003", btitle |-> "Machine Learning Guide", bprice |-> 1200, bstock |-> 20] }

\* The four seed sales in insertion order (sid is assigned on insert).
SeedSales ==
    << [sdate |-> Date0115, mid |-> "M001", bid |-> "B001", sqty |-> 2, sdiscount |-> 100, stotal |-> 1100],
       [sdate |-> Date0116, mid |-> "M002", bid |-> "B002", sqty |-> 1, sdiscount |-> 50,  stotal |-> 750],
       [sdate |-> Date0117, mid |-> "M001", bid |-> "B003", sqty |-> 3, sdiscount |-> 200, stotal |-> 3400],
       [sdate |-> Date0118, mid |-> "M003", bid |-> "B001", sqty |-> 1, sdiscount |-> 0,   stotal |-> 600] >>

(***************************************************************************)
(* The store: the committed content of bookstore.db.  A value of type      *)
(* Store is [member, book, sale, seq]; seq is the sqlite_sequence entry    *)
(* of table sale (0 while there is none).                                  *)
(***************************************************************************)
Db == [member |-> member, book |-> book, sale |-> sale, seq |-> seq]

MaxOf(S) == CHOOSE x \in S : \A y \in S : y <= x

\* Mutant: the table is not AUTOINCREMENT; the next rowid is one above the
\* largest rowid present.
NextSidMaxRow(db) == MaxOf({0} \cup {s.sid : s \in db.sale}) + 1

\* INTEGER PRIMARY KEY AUTOINCREMENT: one more than the largest rowid the
\* table has ever held.
NextSid(db) == MaxOf({db.seq} \cup {s.sid : s \in db.sale}) + 1

\* INSERT INTO sale (sdate, mid, bid, sqty, sdiscount, stotal) VALUES (...)
InsertSale(db, sdate, mid, bid, sqty, sdiscount, stotal) ==
    LET sid == NextSid(db)
    IN  [db EXCEPT !.sale = @ \cup { [sid |-> sid, sdate |-> sdate, mid |-> mid,
                                      bid |-> bid, sqty |-> sqty,
                                      sdiscount |-> sdiscount, stotal |-> stotal] },
                   !.seq = sid]

\* Mutant: the stock UPDATE adds the quantity instead of subtracting it.
DecrementStockAdds(db, sqty, bid) ==
    [db EXCEPT !.book = { IF b.bid = bid THEN [b EXCEPT !.bstock = @ + sqty] ELSE b
                          : b \in @ }]

\* Mutant: the stock UPDATE forgets its WHERE clause.
DecrementStockAll(db, sqty, bid) ==
    [db EXCEPT !.book = { [b EXCEPT !.bstock = @ - sqty] : b \in @ }]

\* UPDATE book SET bstock = bstock - ? WHERE bid = ?
DecrementStock(db, sqty, bid) ==
    [db EXCEPT !.book = { IF b.bid = bid THEN [b EXCEPT !.bstock = @ - sqty] ELSE b
                          : b \in @ }]

\* conn.commit(): the connection's pending writes become the store.
Commit(committed, working) == working

\* Mutant: the rollback is lost and the pending writes reach the store.
RollbackKeepsWrites(committed, working) == working

\* conn.rollback(): the connection's pending writes are discarded.
Rollback(committed, working) == committed

\* Mutant: the member lookup forgets its WHERE clause.
SelectMemberAny(db, mid) == db.member

\* Mutant: the member lookup falls back to the whole table when no row
\* has the id.
SelectMemberFallback(db, mid) ==
    IF \E m \in db.member : m.mid = mid THEN { m \in db.member : m.mid = mid }
    ELSE db.member

\* SELECT * FROM member WHERE mid = ?
\* (the set of matching rows; fetchone() is None when it is empty)
SelectMember(db, mid) == { m \in db.member : m.mid = mid }

\* SELECT * FROM book WHERE bid = ?
SelectBook(db, bid) == { b \in db.book : b.bid = bid }


(***************************************************************************)
(* Inputs the handlers are driven with.                                    *)
(***************************************************************************)
DateSlashes == <<"2", "0", "2", "4", "/", "0", "1", "/", "1", "5">>

\* Requests that exercise the checks of add_sale, alone and combined.
DateInputs == {Date0115, DateSlashes}
MidInputs  == {"M002", "M999"}
BidInputs  == {"B001", "B999"}
QtyChecks  == {<<"5", "1">>, <<"0">>, <<"x">>}
DiscountChecks == {<<"1", "0", "0">>, <<"-", "1">>, <<"x">>}

\* Requests that pass the checks unless the stock has run short.
QtyInputs == {<<"2">>, <<"5", "0">>}
DiscountInputs == {<<"1", "0", "0">>, <<"9", "9", "9", "9">>, <<"9", "9", "9", "9", "9">>}

\* The second line typed at update_sale's prompts.
NewDiscountInputs ==
    {<<"1", "0", "0">>, <<"-", "1">>, <<"x">>, <<"9", "9", "9", "9", "9">>}

\* Where a storage error (sqlite3.Error) strikes in add_sale's write
\* sequence: at no statement, or at the statement named.
FailPoints == {"none", "BEGIN", "INSERT", "UPDATE", "COMMIT"}

\* The decimal text of a sale identifier, as typed at the prompt.
SidText(n) ==
    CASE n = 0 -> <<"0">> [] n = 1 -> <<"1">> [] n = 2 -> <<"2">>
      [] n = 3 -> <<"3">> [] n = 4 -> <<"4">> [] n = 5 -> <<"5">>
      [] n = 6 -> <<"6">> [] n = 7 -> <<"7">> [] n = 8 -> <<"8">>
      [] n = 9 -> <<"9">>

\* The line typed at delete_sale's prompt, and the first one at update_sale's.
ChoiceInputs == {<<>>, <<"x">>} \cup {SidText(n) : n \in 1..(MaxSid + 1)}
UpdateChoiceInputs == {<<>>, <<"x">>, SidText(4), SidText(MaxSid), SidText(MaxSid + 1)}

(***************************************************************************)
(* initialize_db                                                           *)
(***************************************************************************)
RECURSIVE InsertSeedSales(_, _)
InsertSeedSales(db, rows) ==
    IF rows = <<>> THEN db
    ELSE LET r == Head(rows)
         IN  InsertSeedSales(
                 InsertSale(db, r.sdate, r.mid, r.bid, r.sqty, r.sdiscount, r.stotal),
                 Tail(rows))

\* Mutant: the seed check counts the sale table instead of the member table.
SaleCount(db) == Cardinality(db.sale)

\* SELECT COUNT(*) FROM member
MemberCount(db) == Cardinality(db.member)

\* The tables are created only if absent; the seed rows are inserted only
\* when the member table is empty.
initialize_db(db) ==
    IF MemberCount(db) = 0
    THEN InsertSeedSales([db EXCEPT !.member = @ \cup SeedMembers,
                                    !.book = @ \cup SeedBooks],
                         SeedSales)
    ELSE db

(***************************************************************************)
(* add_sale                                                                *)
(***************************************************************************)
\* len(sdate) != 10 or sdate.count("-") != 2
DateShapeBad(sdate) == Len(sdate) # 10 \/ Count(sdate, "-") # 2

\* Mutant: a request for the whole stock is turned down.
StockInsufficientOrEqual(sqty, bstock) == sqty >= bstock

\* Mutant: the stock check is off by one.
StockInsufficientOffByOne(sqty, bstock) == sqty > bstock + 1

\* sqty > book["bstock"]
StockInsufficient(sqty, bstock) == sqty > bstock

\* Mutant: the discount is added instead of taken off.
ComputeTotalDiscountAdded(bprice, sqty, sdiscount) == (bprice * sqty) + sdiscount

\* stotal = (book["bprice"] * sqty) - sdiscount
ComputeTotal(bprice, sqty, sdiscount) == (bprice * sqty) - sdiscount

\* Mutant: the quantity check lets zero through.
NumbersErrorZeroQty(sqty, sdiscount) ==
    IF sqty < 0 THEN "InvalidQuantity"
    ELSE IF sdiscount < 0 THEN "InvalidDiscount"
    ELSE "ok"

\* Mutant: the discount is checked before the quantity.
NumbersErrorDiscountFirst(sqty, sdiscount) ==
    IF sdiscount < 0 THEN "InvalidDiscount"
    ELSE IF sqty <= 0 THEN "InvalidQuantity"
    ELSE "ok"

\* if sqty <= 0: ... / if sdiscount < 0: ...  (the first that fails, or "ok")
NumbersError(sqty, sdiscount) ==
    IF sqty <= 0 THEN "InvalidQuantity"
    ELSE IF sdiscount < 0 THEN "InvalidDiscount"
    ELSE "ok"

Ret(ok, msg, info) == [ok |-> ok, msg |-> msg, info |-> info]

\* The try block around BEGIN .. commit.  The value is what add_sale leaves
\* and returns: [db, ret, raised].  A storage error at a statement is caught
\* and rolled back; a parameter the store cannot bind raises OverflowError
\* at the INSERT, which neither except clause catches.
WriteSale(db, sdate, mid, bid, sqty, sdiscount, stotal, fail) ==
    LET w1 == InsertSale(db, sdate, mid, bid, sqty, sdiscount, stotal)
        w2 == DecrementStock(w1, sqty, bid)
        failed(working) ==
            [db |-> Rollback(db, working),
             ret |-> Ret(FALSE, "StorageWriteFailure", 0), raised |-> FALSE]
    IN  IF fail = "BEGIN" THEN failed(db)
        ELSE IF ~(Bindable(sqty) /\ Bindable(sdiscount) /\ Bindable(stotal))
        THEN [db |-> db, ret |-> Ret(FALSE, "OverflowError", 0), raised |-> TRUE]
        ELSE IF fail = "INSERT" THEN failed(db)
        ELSE IF fail = "UPDATE" THEN failed(w1)
        ELSE IF fail = "COMMIT" THEN failed(w2)
        ELSE [db |-> Commit(db, w2), ret |-> Ret(TRUE, "SaleAdded", stotal),
              raised |-> FALSE]

\* add_sale(conn, sdate, mid, bid, sqty_input, sdiscount_input)
AddSaleOutcome(db, sdate, mid, bid, sqty_input, sdiscount_input, fail) ==
    LET same(ret) == [db |-> db, ret |-> ret, raised |-> FALSE]
    IN  IF DateShapeBad(sdate)
        THEN same(Ret(FALSE, "InvalidDateFormat", 0))
        ELSE IF ~(IsIntText(sqty_input) /\ IsIntText(sdiscount_input))
        THEN same(Ret(FALSE, "NonIntegerInput", 0))
        ELSE
        LET sqty == ParseInt(sqty_input)
            sdiscount == ParseInt(sdiscount_input)
            members == SelectMember(db, mid)
            books == SelectBook(db, bid)
        IN  IF NumbersError(sqty, sdiscount) # "ok"
            THEN same(Ret(FALSE, NumbersError(sqty, sdiscount), 0))
            ELSE IF members = {} \/ books = {}
            THEN same(Ret(FALSE, "UnknownReference", 0))
            ELSE
            LET b == CHOOSE x \in books : TRUE
            IN  IF StockInsufficient(sqty, b.bstock)
                THEN same(Ret(FALSE, "InsufficientStock", b.bstock))
                ELSE WriteSale(db, sdate, mid, bid, sqty, sdiscount,
                               ComputeTotal(b.bprice, sqty, sdiscount), fail)

\* The price of the book a sale row refers to when the row is written.
PriceOf(db, bid) == (CHOOSE b \in db.book : b.bid = bid).bprice

\* created_price after db changed to new: the rows new to the sale table
\* get the price their book had when they were inserted, removed rows go.
RecordCreated(db, new) ==
    [sid \in {s.sid : s \in new.sale} |->
        IF sid \in DOMAIN created_price THEN created_price[sid]
        ELSE PriceOf(db, (CHOOSE s \in new.sale : s.sid = sid).bid)]

\* Menu choice 1.  An exception that leaves add_sale leaves main's with
\* block too: the connection rolls back and the process ends.
add_sale(sdate, mid, bid, sqty_input, sdiscount_input, fail) ==
    /\ running
    /\ \E o \in {AddSaleOutcome(Db, sdate, mid, bid, sqty_input, sdiscount_input, fail)} :
           /\ o.db.seq <= MaxSid
           /\ member' = o.db.member
           /\ book' = o.db.book
           /\ sale' = o.db.sale
           /\ seq' = o.db.seq
           /\ running' = ~o.raised
           /\ result' = [op |-> "add_sale"] @@ o.ret
           /\ created_price' = RecordCreated(Db, o.db)

(***************************************************************************)
(* print_sale_report, update_sale, delete_sale                             *)
(***************************************************************************)
\* FROM sale JOIN member ON sale.mid = member.mid JOIN book ON sale.bid =
\* book.bid: one row per sale whose member and book both exist.
SaleMemberBook(db) ==
    { [sid |-> s.sid, sdate |-> s.sdate, mname |-> m.mname, btitle |-> b.btitle,
       bprice |-> b.bprice, sqty |-> s.sqty, sdiscount |-> s.sdiscount,
       stotal |-> s.stotal]
      : <<s, m, b>> \in { t \in db.sale \X db.member \X db.book :
                            t[1].mid = t[2].mid /\ t[1].bid = t[3].bid } }

\* Mutant: the join condition compares the sale's member id with the
\* member's name, so no sale finds its member.
SaleMemberOnName(db) ==
    { [sid |-> s.sid, mname |-> m.mname, sdate |-> s.sdate]
      : <<s, m>> \in { t \in db.sale \X db.member : t[1].mid = t[2].mname } }

\* FROM sale JOIN member ON sale.mid = member.mid
SaleMember(db) ==
    { [sid |-> s.sid, mname |-> m.mname, sdate |-> s.sdate]
      : <<s, m>> \in { t \in db.sale \X db.member : t[1].mid = t[2].mid } }

\* Menu choice 2: reads only.
print_sale_report ==
    /\ running
    /\ result' = [op |-> "print_sale_report"] @@
                 (IF SaleMemberBook(Db) = {} THEN Ret(FALSE, "NoData", 0)
                  ELSE Ret(TRUE, "Report", Cardinality(SaleMemberBook(Db))))
    /\ UNCHANGED <<member, book, sale, seq, running, created_price>>

\* Mutant: the quantity is left out of the recomputed total.
UpdateTotalIgnoresQty(bprice, sqty, discount) == bprice - discount

\* stotal = (bprice * sqty) - discount
UpdateTotal(bprice, sqty, discount) == (bprice * sqty) - discount

\* Mutant: the WHERE clause matches the sale's book instead of its sid, so
\* every sale of the same book is rewritten.
UpdateSaleRowSameBook(db, discount, stotal, sid) ==
    [db EXCEPT !.sale = { IF \E t \in db.sale : t.sid = sid /\ t.bid = s.bid
                          THEN [s EXCEPT !.sdiscount = discount, !.stotal = stotal]
                          ELSE s : s \in @ }]

\* UPDATE sale SET sdiscount = ?, stotal = ? WHERE sid = ?
UpdateSaleRow(db, discount, stotal, sid) ==
    [db EXCEPT !.sale = { IF s.sid = sid
                          THEN [s EXCEPT !.sdiscount = discount, !.stotal = stotal]
                          ELSE s : s \in @ }]

\* update_sale(conn) with the two lines typed at its prompts.
UpdateSaleOutcome(db, choice, discount_input) ==
    LET same(ret) == [db |-> db, ret |-> ret, raised |-> FALSE]
        sales == SaleMemberBook(db)
    IN  IF choice = <<>> THEN same(Ret(FALSE, "Cancelled", 0))
        ELSE IF ~IsIntText(choice) THEN same(Ret(FALSE, "InvalidNumber", 0))
        ELSE
        LET sid == ParseInt(choice)
            matched == { r \in sales : r.sid = sid }
        IN  IF matched = {} THEN same(Ret(FALSE, "NotFound", 0))
            ELSE IF ~IsIntText(discount_input) THEN same(Ret(FALSE, "InvalidNumber", 0))
            ELSE
            LET matched_sale == CHOOSE r \in matched : TRUE
                discount == ParseInt(discount_input)
                stotal == UpdateTotal(matched_sale.bprice, matched_sale.sqty, discount)
            IN  IF discount < 0 THEN same(Ret(FALSE, "InvalidDiscount", 0))
                ELSE IF ~(Bindable(discount) /\ Bindable(stotal) /\ Bindable(sid))
                THEN [db |-> db, ret |-> Ret(FALSE, "OverflowError", 0), raised |-> TRUE]
                ELSE [db |-> Commit(db, UpdateSaleRow(db, discount, stotal, sid)),
                      ret |-> Ret(TRUE, "SaleUpdated", stotal), raised |-> FALSE]

\* Menu choice 3.
update_sale(choice, discount_input) ==
    /\ running
    /\ \E o \in {UpdateSaleOutcome(Db, choice, discount_input)} :
           /\ member' = o.db.member
           /\ book' = o.db.book
           /\ sale' = o.db.sale
           /\ seq' = o.db.seq
           /\ running' = ~o.raised
           /\ result' = [op |-> "update_sale"] @@ o.ret
    /\ UNCHANGED created_price

\* Mutant: the WHERE clause compares with >= instead of =.
DeleteSaleRowAndAbove(db, sid) == [db EXCEPT !.sale = { s \in @ : s.sid < sid }]

\* DELETE FROM sale WHERE sid = ?
DeleteSaleRow(db, sid) == [db EXCEPT !.sale = { s \in @ : s.sid # sid }]

\* delete_sale(conn) with the line typed at its prompt.
DeleteSaleOutcome(db, choice) ==
    LET same(ret) == [db |-> db, ret |-> ret, raised |-> FALSE]
        sales == SaleMember(db)
    IN  IF choice = <<>> THEN same(Ret(FALSE, "Cancelled", 0))
        ELSE IF ~IsIntText(choice) THEN same(Ret(FALSE, "InvalidNumber", 0))
        ELSE
        LET sid == ParseInt(choice)
            found == \E r \in sales : r.sid = sid
        IN  IF ~found THEN same(Ret(FALSE, "NotFound", 0))
            ELSE [db |-> Commit(db, DeleteSaleRow(db, sid)),
                  ret |-> Ret(TRUE, "SaleDeleted", sid), raised |-> FALSE]

\* Menu choice 4.
delete_sale(choice) ==
    /\ running
    /\ \E o \in {DeleteSaleOutcome(Db, choice)} :
           /\ member' = o.db.member
           /\ book' = o.db.book
           /\ sale' = o.db.sale
           /\ seq' = o.db.seq
           /\ result' = [op |-> "delete_sale"] @@ o.ret
           /\ created_price' = RecordCreated(Db, o.db)
    /\ UNCHANGED running

(***************************************************************************)
(* main                                                                    *)
(***************************************************************************)
\* Process start: connect_db() and initialize_db(conn), then the menu loop.
main_start ==
    /\ ~running
    /\ \E new \in {initialize_db(Db)} :
           /\ member' = new.member
           /\ book' = new.book
           /\ sale' = new.sale
           /\ seq' = new.seq
           /\ created_price' = RecordCreated(new, new)
           /\ result' = [op |-> "initialize_db"] @@
                        (IF MemberCount(Db) = 0 THEN Ret(TRUE, "Seeded", 0)
                         ELSE Ret(TRUE, "SeedSkipped", 0))
    /\ running' = TRUE

\* Menu choice 5 or an empty line: the loop breaks and the with block ends.
main_exit ==
    /\ running
    /\ running' = FALSE
    /\ result' = [op |-> "exit"] @@ Ret(TRUE, "Exit", 0)
    /\ UNCHANGED <<member, book, sale, seq, created_price>>

(***************************************************************************)
(* Another client of bookstore.db rewriting a book's price.  No handler of *)
(* the program does this; it is part of SpecPrice only.                    *)
(***************************************************************************)
RepricedBids == {"B001"}
NewPrices == {700}

price_change(bid, bprice) ==
    /\ \E b \in book : b.bid = bid /\ b.bprice # bprice
    /\ book' = { IF b.bid = bid THEN [b EXCEPT !.bprice = bprice] ELSE b : b \in book }
    /\ result' = [op |-> "price_change"] @@ Ret(TRUE, "PriceChanged", bprice)
    /\ UNCHANGED <<member, sale, seq, running, created_price>>

(***************************************************************************)
(* Specifications                                                          *)
(***************************************************************************)
Init ==
    /\ member = {}
    /\ book = {}
    /\ sale = {}
    /\ seq = 0
    /\ running = FALSE
    /\ result = [op |-> "none"] @@ Ret(FALSE, "None", 0)
    /\ created_price = << >>

AddSaleChecks ==
    \E sdate \in DateInputs, mid \in MidInputs, bid \in BidInputs,
       sqty_input \in QtyChecks, sdiscount_input \in DiscountChecks :
       add_sale(sdate, mid, bid, sqty_input, sdiscount_input, "none")

AddSaleWrites ==
    \E sqty_input \in QtyInputs, sdiscount_input \in DiscountInputs, fail \in FailPoints :
       add_sale(Date0115, "M002", "B001", sqty_input, sdiscount_input, fail)

UpdateSales ==
    \E choice \in UpdateChoiceInputs, discount_input \in NewDiscountInputs :
       update_sale(choice, discount_input)

DeleteSales == \E choice \in ChoiceInputs : delete_sale(choice)

Next ==
    \/ main_start
    \/ main_exit
    \/ AddSaleChecks
    \/ AddSaleWrites
    \/ print_sale_report
    \/ UpdateSales
    \/ DeleteSales

Spec == Init /\ [][Next]_vars

PriceChanges ==
    \E bid \in RepricedBids, bprice \in NewPrices : price_change(bid, bprice)

NextPrice ==
    \/ main_start
    \/ main_exit
    \/ AddSaleWrites
    \/ UpdateSales
    \/ DeleteSales
    \/ PriceChanges

SpecPrice == Init /\ [][NextPrice]_vars

\* Requests whose discount is larger than price x quantity.
LowQtyInputs == {<<"1">>, <<"2">>}
HighDiscountInputs == {<<"9", "9", "9", "9">>, <<"9", "9", "9", "9", "9">>}

AddSaleDiscounts ==
    \E sqty_input \in LowQtyInputs, sdiscount_input \in HighDiscountInputs :
       add_sale(Date0115, "M002", "B001", sqty_input, sdiscount_input, "none")

NextDiscount ==
    \/ main_start
    \/ main_exit
    \/ AddSaleDiscounts
    \/ UpdateSales
    \/ DeleteSales

SpecDiscount == Init /\ [][NextDiscount]_vars

\* Requests with valid numbers whose member or book may be unknown.
AddSaleReferences ==
    \E mid \in MidInputs, bid \in BidInputs :
       add_sale(Date0115, mid, bid, <<"2">>, <<"1", "0", "0">>, "none")

NextReferences ==
    \/ main_start
    \/ main_exit
    \/ AddSaleReferences
    \/ UpdateSales
    \/ DeleteSales

SpecReferences == Init /\ [][NextReferences]_vars

(***************************************************************************)
(* Vocabulary of the properties.                                           *)
(***************************************************************************)
\* Every add_sale request the specifications issue:
\* <<sdate, mid, bid, sqty_input, sdiscount_input, fail>>.
AddRequests ==
    (DateInputs \X MidInputs \X BidInputs \X QtyChecks \X DiscountChecks \X {"none"})
    \cup ({Date0115} \X {"M002"} \X {"B001"} \X QtyInputs \X DiscountInputs \X FailPoints)

\* What add_sale called with the request in the current state returns and
\* leaves in the store.
AddSaleCall(rq) == AddSaleOutcome(Db, rq[1], rq[2], rq[3], rq[4], rq[5], rq[6])

StoreUnchanged == UNCHANGED <<member, book, sale, seq>>

HasMember(mid) == \E m \in member : m.mid = mid
HasBook(bid) == \E b \in book : b.bid = bid
StockOf(bid) == (CHOOSE b \in book : b.bid = bid).bstock

\* The request passes the input checks: date shape, integer texts, quantity
\* above zero, discount not negative.
InputsValid(rq) ==
    /\ Len(rq[1]) = 10 /\ Count(rq[1], "-") = 2
    /\ IsIntText(rq[4]) /\ IsIntText(rq[5])
    /\ ParseInt(rq[4]) > 0
    /\ ParseInt(rq[5]) >= 0

\* The request passes every check up to and including the stock check.
RequestValid(rq) ==
    /\ InputsValid(rq)
    /\ HasMember(rq[2]) /\ HasBook(rq[3])
    /\ ParseInt(rq[4]) <= StockOf(rq[3])

\* The book table after one book's stock went down by qty.
StockReduced(bid, qty) ==
    { IF b.bid = bid THEN [b EXCEPT !.bstock = @ - qty] ELSE b : b \in book }

(***************************************************************************)
(* C1.  add_sale's write is all-or-nothing.  When a storage error strikes  *)
(* at BEGIN, at the INSERT, at the stock UPDATE or at commit, add_sale     *)
(* returns the StorageWriteFailure result and the committed store (sale    *)
(* rows, book stock, the id sequence) is what it was before the call; and  *)
(* every add_sale step either leaves the store as it was or adds exactly   *)
(* one sale row together with the matching decrement of that row's book.   *)
(***************************************************************************)
\* The storage error named by the request is actually met: the call gets
\* as far as the statement it strikes at.
StorageErrorStrikes(rq) ==
    /\ rq[6] # "none"
    /\ RequestValid(rq)
    /\ rq[6] = "BEGIN" \/ Bindable(ParseInt(rq[5]))

C1_AtomicWrite ==
    /\ [](\A rq \in AddRequests :
             (running /\ StorageErrorStrikes(rq)) =>
                 /\ AddSaleCall(rq).ret = Ret(FALSE, "StorageWriteFailure", 0)
                 /\ AddSaleCall(rq).db = Db
                 /\ ~AddSaleCall(rq).raised)
    /\ [][result'.op = "add_sale" =>
            \/ ~result'.ok /\ StoreUnchanged
            \/ /\ result'.ok
               /\ member' = member
               /\ \E r \in sale' \ sale :
                     /\ sale' = sale \cup {r}
                     /\ book' = StockReduced(r.bid, r.sqty)
                     /\ book' # book
         ]_vars

\* A storage error has struck during a write and the call has returned.
C1_Witness ==
    /\ result.op = "add_sale"
    /\ result.msg = "StorageWriteFailure"
    /\ running

(***************************************************************************)
(* C2.  In every reachable state every book's stock is at least zero.      *)
(***************************************************************************)
C2_StockNonNegative == \A b \in book : b.bstock >= 0

\* A sale has taken the whole stock of a book.
C2_Witness ==
    /\ result.op = "add_sale" /\ result.ok
    /\ \E b \in book : b.bstock = 0

(***************************************************************************)
(* C3.  Every add_sale request that passes validation, with quantity at    *)
(* most the book's stock and no storage error, returns success, lowers     *)
(* the book's stock by the quantity and adds exactly one sale row carrying *)
(* the request's date, member, book, quantity and discount with            *)
(* total = price x quantity - discount.                                    *)
(***************************************************************************)
AddSaleStep(rq) == add_sale(rq[1], rq[2], rq[3], rq[4], rq[5], rq[6])

\* The step has returned success and written the request's sale.
SaleRowAdded(rq) ==
    LET qty == ParseInt(rq[4])
        discount == ParseInt(rq[5])
        total == PriceOf(Db, rq[3]) * qty - discount
    IN  /\ result' = [op |-> "add_sale", ok |-> TRUE, msg |-> "SaleAdded", info |-> total]
        /\ running'
        /\ member' = member
        /\ book' = StockReduced(rq[3], qty)
        /\ \E r \in sale' \ sale :
              /\ sale' = sale \cup {r}
              /\ r.sdate = rq[1] /\ r.mid = rq[2] /\ r.bid = rq[3]
              /\ r.sqty = qty /\ r.sdiscount = discount /\ r.stotal = total

C3_ValidSaleSucceeds ==
    [][\A rq \in AddRequests :
          (RequestValid(rq) /\ rq[6] = "none" /\ AddSaleStep(rq)) => SaleRowAdded(rq)
      ]_vars

(***************************************************************************)
(* C4.  A request that passes the earlier checks and asks for more than    *)
(* the book's current stock gets the InsufficientStock failure carrying    *)
(* the current stock, and no sale row is created and no stock changes; a   *)
(* quantity equal to the stock is not rejected for lack of stock.          *)
(***************************************************************************)
C4_InsufficientStock ==
    /\ [](\A rq \in AddRequests :
             (running /\ InputsValid(rq) /\ HasMember(rq[2]) /\ HasBook(rq[3])) =>
                 IF ParseInt(rq[4]) > StockOf(rq[3])
                 THEN /\ AddSaleCall(rq).ret =
                             Ret(FALSE, "InsufficientStock", StockOf(rq[3]))
                      /\ AddSaleCall(rq).db = Db
                      /\ ~AddSaleCall(rq).raised
                 ELSE AddSaleCall(rq).ret.msg # "InsufficientStock")
    /\ [][(result'.op = "add_sale" /\ result'.msg = "InsufficientStock") =>
             (~result'.ok /\ StoreUnchanged)]_vars

\* 51 copies were asked of a book that has 50, and the 50 are still there.
C4_Witness ==
    /\ result = [op |-> "add_sale", ok |-> FALSE, msg |-> "InsufficientStock", info |-> 50]
    /\ StockOf("B001") = 50

(***************************************************************************)
(* C5.  A request that passes the input checks and names a member or a     *)
(* book (or both) that does not exist gets the UnknownReference failure,   *)
(* and nothing is written.                                                 *)
(***************************************************************************)
C5_UnknownReference ==
    /\ [](\A rq \in AddRequests :
             (running /\ InputsValid(rq) /\ ~(HasMember(rq[2]) /\ HasBook(rq[3]))) =>
                 /\ AddSaleCall(rq).ret = Ret(FALSE, "UnknownReference", 0)
                 /\ AddSaleCall(rq).db = Db
                 /\ ~AddSaleCall(rq).raised)
    /\ [][(result'.op = "add_sale" /\ result'.msg = "UnknownReference") =>
             (~result'.ok /\ StoreUnchanged)]_vars

\* A request naming an unknown member or book has been turned down after
\* sales were recorded.
C5_Witness ==
    /\ result.op = "add_sale" /\ result.msg = "UnknownReference"
    /\ seq > 4

(***************************************************************************)
(* C6.  The checks of add_sale run in a fixed order and the first that     *)
(* fails gives the result: date format, integer inputs, quantity,          *)
(* discount, references, stock.  Whenever one fails the store is left as   *)
(* it was.                                                                 *)
(***************************************************************************)
FirstViolation(rq) ==
    IF ~(Len(rq[1]) = 10 /\ Count(rq[1], "-") = 2) THEN "InvalidDateFormat"
    ELSE IF ~(IsIntText(rq[4]) /\ IsIntText(rq[5])) THEN "NonIntegerInput"
    ELSE IF ParseInt(rq[4]) <= 0 THEN "InvalidQuantity"
    ELSE IF ParseInt(rq[5]) < 0 THEN "InvalidDiscount"
    ELSE IF ~(HasMember(rq[2]) /\ HasBook(rq[3])) THEN "UnknownReference"
    ELSE IF ParseInt(rq[4]) > StockOf(rq[3]) THEN "InsufficientStock"
    ELSE "none"

C6_FirstFailingCheckWins ==
    running =>
        \A rq \in AddRequests :
            FirstViolation(rq) # "none" =>
                /\ AddSaleCall(rq).ret.msg = FirstViolation(rq)
                /\ ~AddSaleCall(rq).ret.ok
                /\ AddSaleCall(rq).db = Db
                /\ ~AddSaleCall(rq).raised

\* A request with a zero quantity (some of them with a negative discount
\* too) has been turned down for its quantity.
C6_Witness ==
    /\ result.op = "add_sale" /\ result.msg = "InvalidQuantity"
    /\ running

(***************************************************************************)
(* C7.  Every sale row, the seed rows included, has                        *)
(* total = unit price of its book x quantity - discount.                   *)
(***************************************************************************)
C7_TotalDerived ==
    \A s \in sale :
        /\ HasBook(s.bid)
        /\ s.stotal = PriceOf(Db, s.bid) * s.sqty - s.sdiscount

\* A sale added by add_sale has had its discount edited by update_sale.
C7_Witness ==
    /\ result.op = "update_sale" /\ result.msg = "SaleUpdated"
    /\ \E s \in sale : s.sid > 4 /\ s.sqty = 50 /\ s.sdiscount = 100

(***************************************************************************)
(* C8.  What update_sale writes as the total.                              *)
(***************************************************************************)
UpdateSaleStep(choice, discount_input) == update_sale(choice, discount_input)

\* The row update_sale(choice, ..) has just written.
UpdatedRow(choice) == CHOOSE s \in sale' : s.sid = ParseInt(choice)

DeleteSaleCall(choice) == DeleteSaleOutcome(Db, choice)

C9_DeleteExactlyOneRow ==
    /\ [](\A choice \in ChoiceInputs :
             (running /\ IsIntText(choice) /\ \E s \in sale : s.sid = ParseInt(choice)) =>
                 /\ DeleteSaleCall(choice).ret = Ret(TRUE, "SaleDeleted", ParseInt(choice))
                 /\ DeleteSaleCall(choice).db =
                        [Db EXCEPT !.sale = { s \in sale : s.sid # ParseInt(choice) }])
    /\ [][result'.msg = "SaleDeleted" =>
             /\ \E r \in sale : r.sid = result'.info /\ sale' = sale \ {r}
             /\ UNCHANGED <<member, book, seq>>
         ]_vars

\* The sale add_sale recorded has been deleted while seed sales remain, and
\* the 50 copies it took are still missing from the stock.
C9_Witness ==
    /\ result.op = "delete_sale" /\ result.msg = "SaleDeleted" /\ result.info = 5
    /\ sale # {}
    /\ StockOf("B001") = 0

(***************************************************************************)
(* C10.  initialize_db seeds once: on an empty store it loads the 3        *)
(* members, 3 books and 4 sales; on a store that already holds members it  *)
(* changes no member, book or sale row, whatever has been added, edited    *)
(* or deleted since; and a store that holds members never loses them, so   *)
(* the seeding cannot happen again.                                        *)
(***************************************************************************)
C10_InitIdempotent ==
    [][/\ result'.op = "initialize_db" =>
            IF member = {}
            THEN /\ result'.msg = "Seeded"
                 /\ book = {} /\ sale = {}
                 /\ Cardinality(member') = 3
                 /\ Cardinality(book') = 3
                 /\ Cardinality(sale') = 4
            ELSE /\ result'.msg = "SeedSkipped"
                 /\ StoreUnchanged
                 /\ Cardinality(member') = Cardinality(member)
       /\ member # {} => member' # {}
      ]_vars

\* The program has been started again after every sale was deleted, and
\* the seed sales have not come back.
C10_Witness ==
    /\ result.op = "initialize_db" /\ result.msg = "SeedSkipped"
    /\ sale = {}
    /\ seq > 4

(***************************************************************************)
(* C11.  A successful add_sale changes nothing but the one sale row it     *)
(* adds and the stock of that row's book: every sale row that was there,   *)
(* every other book's stock, every book's price and title and every member *)
(* row are as before.                                                      *)
(***************************************************************************)
C11_AddSaleFrame ==
    [][(result'.op = "add_sale" /\ result'.ok) =>
          /\ member' = member
          /\ sale \subseteq sale'
          /\ Cardinality(sale' \ sale) = 1
          /\ Cardinality(book') = Cardinality(book)
          /\ \E r \in sale' \ sale :
                \A b \in book :
                   \E c \in book' :
                      /\ c.bid = b.bid /\ c.btitle = b.btitle /\ c.bprice = b.bprice
                      /\ c.bstock = IF b.bid = r.bid THEN b.bstock - r.sqty ELSE b.bstock
      ]_vars

\* A sale has been added to a store in which a seed sale had been edited;
\* the edited row and the other books' stocks are still there.
C11_Witness ==
    /\ result.op = "add_sale" /\ result.ok
    /\ \E s \in sale : s.sid = 4 /\ s.sdiscount = 100
    /\ StockOf("B002") = 30 /\ StockOf("B003") = 20
    /\ StockOf("B001") < 50

(***************************************************************************)
(* C12.  add_sale puts no upper limit on the discount and does not floor   *)
(* the total at zero: a valid request whose discount is larger than        *)
(* price x quantity succeeds, records the negative total                   *)
(* price x quantity - discount as it is, and lowers the stock by the       *)
(* quantity (discount 9999 on a 600 x 1 sale records -9399).               *)
(***************************************************************************)
DiscountRequests ==
    {Date0115} \X {"M002"} \X {"B001"} \X LowQtyInputs \X HighDiscountInputs \X {"none"}

C12_UnboundedDiscount ==
    [][\A rq \in DiscountRequests :
          (/\ RequestValid(rq)
           /\ ParseInt(rq[5]) > PriceOf(Db, rq[3]) * ParseInt(rq[4])
           /\ AddSaleStep(rq)) =>
              /\ SaleRowAdded(rq)
              /\ result'.info = PriceOf(Db, rq[3]) * ParseInt(rq[4]) - ParseInt(rq[5])
              /\ result'.info < 0
      ]_vars

(***************************************************************************)
(* C13.  update_sale never touches the book table (nor the member table),  *)
(* and a successful update_sale changes exactly one sale row, the one with *)
(* the chosen identifier, in its discount and total only: its identifier,  *)
(* date, member, book and quantity, and every other sale row, stay as they *)
(* were.                                                                   *)
(***************************************************************************)
C13_UpdateSaleFrame ==
    [][(result'.op = "update_sale") =>
          /\ book' = book
          /\ member' = member
          /\ Cardinality(sale') = Cardinality(sale)
          /\ Cardinality(sale \ sale') <= 1
          /\ \A s \in sale \ sale' :
                \E t \in sale' \ sale :
                   /\ result'.ok
                   /\ t.sid = s.sid /\ t.sdate = s.sdate /\ t.mid = s.mid
                   /\ t.bid = s.bid /\ t.sqty = s.sqty
                   /\ t.stotal = result'.info
          /\ ~result'.ok => sale' = sale
      ]_vars

\* The last step was a successful edit of sale 4 whose new total differs
\* from the seeded one, while sales 1 to 3 and the stock are as seeded.
C13_Witness ==
    /\ result.op = "update_sale" /\ result.ok
    /\ \E s \in sale : s.sid = 4 /\ s.sdiscount = 100 /\ s.stotal = result.info
    /\ \A i \in 1..3 :
          \E s \in sale : /\ s.sid = i
                          /\ s.sdiscount = SeedSales[i].sdiscount
                          /\ s.stotal = SeedSales[i].stotal
    /\ StockOf("B001") = 50 /\ StockOf("B002") = 30 /\ StockOf("B003") = 20

(***************************************************************************)
(* C14.  While the menu runs, for every identifier typed at the prompt of  *)
(* update_sale or delete_sale: the call reports NotFound if and only if    *)
(* the sale table holds no row with that identifier, and then it leaves    *)
(* the store as it was.  So the joined listing never hides an existing     *)
(* sale: a row that is in the table is found and the edit or delete goes   *)
(* on.  A step that reports NotFound changes nothing in the store.         *)
(***************************************************************************)
SaleExists(sid) == \E s \in sale : s.sid = sid

C14_NotFoundExact ==
    /\ [](running =>
            /\ \A choice \in {c \in ChoiceInputs : IsIntText(c)} :
                  /\ (DeleteSaleCall(choice).ret.msg = "NotFound")
                        <=> ~SaleExists(ParseInt(choice))
                  /\ DeleteSaleCall(choice).ret.msg = "NotFound"
                        => DeleteSaleCall(choice).db = Db
            /\ \A choice \in {c \in UpdateChoiceInputs : IsIntText(c)},
                  discount_input \in NewDiscountInputs :
                  /\ (UpdateSaleOutcome(Db, choice, discount_input).ret.msg = "NotFound")
                        <=> ~SaleExists(ParseInt(choice))
                  /\ UpdateSaleOutcome(Db, choice, discount_input).ret.msg = "NotFound"
                        => UpdateSaleOutcome(Db, choice, discount_input).db = Db)
    /\ [][(result'.op \in {"update_sale", "delete_sale"} /\ result'.msg = "NotFound")
             => StoreUnchanged]_vars

\* update_sale has just reported NotFound for sale 4, which was deleted
\* before, while sale 5 is in the table and delete_sale would find it.
C14_Witness ==
    /\ running
    /\ result.op = "update_sale" /\ result.msg = "NotFound"
    /\ ~SaleExists(4) /\ SaleExists(5)
    /\ DeleteSaleCall(SidText(5)).ret.msg = "SaleDeleted"
    /\ DeleteSaleCall(SidText(4)).ret.msg = "NotFound"

(***************************************************************************)
(* C15.  In every reachable state every sale row has a quantity above zero *)
(* and a discount of at least zero.  While the menu runs, add_sale called  *)
(* with a well-formed date and integer texts of which the quantity is zero *)
(* or negative, or the discount negative, fails with InvalidQuantity or    *)
(* InvalidDiscount and writes nothing; update_sale given a negative new    *)
(* discount fails, with InvalidDiscount when the sale exists, and leaves   *)
(* the store, so the sale's discount and total, as it was.  A step that    *)
(* ends with one of these two errors leaves the store unchanged.           *)
(***************************************************************************)
NegativeNumberRequests ==
    {Date0115} \X {"M002"} \X {"B001"} \X {<<"0">>, <<"-", "2">>, <<"2">>}
               \X {<<"-", "1">>, <<"1", "0", "0">>} \X {"none"}

NumbersRejected(rq) ==
    /\ Len(rq[1]) = 10 /\ Count(rq[1], "-") = 2
    /\ IsIntText(rq[4]) /\ IsIntText(rq[5])
    /\ (ParseInt(rq[4]) <= 0 \/ ParseInt(rq[5]) < 0)

C15_QuantityDiscountRange ==
    /\ [](/\ \A s \in sale : s.sqty > 0 /\ s.sdiscount >= 0
          /\ running =>
                /\ \A rq \in AddRequests \cup NegativeNumberRequests :
                      NumbersRejected(rq) =>
                         /\ ~AddSaleCall(rq).ret.ok
                         /\ AddSaleCall(rq).ret.msg =
                               (IF ParseInt(rq[4]) <= 0 THEN "InvalidQuantity"
                                ELSE "InvalidDiscount")
                         /\ AddSaleCall(rq).db = Db
                /\ \A choice \in UpdateChoiceInputs :
                      /\ ~UpdateSaleOutcome(Db, choice, <<"-", "1">>).ret.ok
                      /\ UpdateSaleOutcome(Db, choice, <<"-", "1">>).db = Db
                      /\ (IsIntText(choice) /\ SaleExists(ParseInt(choice))) =>
                            UpdateSaleOutcome(Db, choice, <<"-", "1">>).ret.msg
                               = "InvalidDiscount")
    /\ [][result'.msg \in {"InvalidQuantity", "InvalidDiscount"} => StoreUnchanged]_vars

\* update_sale has just refused a negative discount for sale 4, which is
\* in the table, after add_sale had written sale 5.
C15_Witness ==
    /\ result.op = "update_sale" /\ result.msg = "InvalidDiscount"
    /\ SaleExists(4) /\ SaleExists(5)
    /\ \A s \in sale : s.sqty > 0 /\ s.sdiscount >= 0

(***************************************************************************)
(* C16.  In every reachable state, whatever add_sale, update_sale,         *)
(* delete_sale and initialize_db calls came before, every sale row's       *)
(* member id is the id of a row of the member table and its book id is the *)
(* id of a row of the book table.                                          *)
(***************************************************************************)
C16_ReferentialIntegrity ==
    \A s \in sale : HasMember(s.mid) /\ HasBook(s.bid)

\* add_sale has just refused an unknown member or book after an earlier
\* add_sale wrote sale 5, and every sale is listed by the three-table join.
C16_Witness ==
    /\ result.op = "add_sale" /\ result.msg = "UnknownReference"
    /\ SaleExists(5)
    /\ Cardinality(SaleMemberBook(Db)) = Cardinality(sale)

(***************************************************************************)
(* C17.  Sale identifiers are unique and never reused.  In every state no  *)
(* two sale rows share an identifier and none is above the sequence value  *)
(* of the sale table; the sequence value never goes down; and a row whose  *)
(* identifier was not in the table before the step has an identifier above *)
(* the old sequence value, so above every identifier given out before,     *)
(* those of deleted sales included, and above every identifier in the      *)
(* table.  An add_sale that fails leaves the sale table and the sequence   *)
(* value as they were.                                                     *)
(***************************************************************************)
C17_SidNeverReused ==
    /\ [](/\ \A s, t \in sale : s.sid = t.sid => s = t
          /\ \A s \in sale : 1 <= s.sid /\ s.sid <= seq)
    /\ [][/\ seq' >= seq
          /\ \A t \in sale' :
                (~\E s \in sale : s.sid = t.sid) =>
                   /\ t.sid > seq
                   /\ t.sid <= seq'
                   /\ \A s \in sale : t.sid > s.sid
          /\ (result'.op = "add_sale" /\ ~result'.ok) => (sale' = sale /\ seq' = seq)
         ]_vars

\* add_sale has just written sale 5 although sale 4, the highest row of
\* the seeded table, was deleted before.
C17_Witness ==
    /\ result.op = "add_sale" /\ result.ok
    /\ ~SaleExists(4) /\ SaleExists(5) /\ SaleExists(3)
    /\ seq = 5

(***************************************************************************)
(* C18.  Once the store is seeded, the member table stays the seeded set   *)
(* and the book table keeps the seeded identifiers, titles and prices,     *)
(* with no stock above its seeded value.  No step changes a member row;    *)
(* no step raises the stock of a book or changes its identifier, title or  *)
(* price; and a step that changes the book table is a successful add_sale  *)
(* that lowers the stock of exactly one book.                              *)
(***************************************************************************)
Seeded == member # {}

SameBookBut(b, c) == c.bid = b.bid /\ c.btitle = b.btitle /\ c.bprice = b.bprice

C18_BooksMembersStable ==
    /\ [](Seeded =>
            /\ member = SeedMembers
            /\ Cardinality(book) = Cardinality(SeedBooks)
            /\ \A b \in SeedBooks :
                  \E c \in book : SameBookBut(b, c) /\ c.bstock <= b.bstock)
    /\ [][Seeded =>
            /\ member' = member
            /\ Cardinality(book') = Cardinality(book)
            /\ \A b \in book :
                  \E c \in book' : SameBookBut(b, c) /\ c.bstock <= b.bstock
            /\ book' # book =>
                  /\ result'.op = "add_sale" /\ result'.ok
                  /\ Cardinality(book \ book') = 1
         ]_vars

\* delete_sale has just removed sale 5, which add_sale had written, and
\* the stock of its book is still the lowered one.
C18_Witness ==
    /\ result.op = "delete_sale" /\ result.ok
    /\ seq = 5 /\ ~SaleExists(5)
    /\ StockOf("B001") < 50
    /\ StockOf("B002") = 30 /\ StockOf("B003") = 20

============================================================================
